---- MODULE Spec2Model ----
(***************************************************************************)
(* Model of MarketDataFrame (src/DataFrame.h): the Row Store Data<T> and   *)
(* the Table DataFrame<T>, instantiated as in src/main.cpp with T = double.*)
(*                                                                         *)
(* A Row Store is a function asset -> (feature -> value) whose domain is   *)
(* the set of keys of the unordered_map.  The Table's std::map is the      *)
(* sequence of its (date, Row Store) entries in iteration order.           *)
(***************************************************************************)
EXTENDS Integers, Sequences, FiniteSets, TLC

VARIABLES
    formats,           \* DataFrame::formats, the date formats in trial order
    assetsToFeatures,  \* DataFrame::assetsToFeatures
    data,              \* DataFrame::data, entries in iteration order
    status,            \* "running", or "terminated" after std::terminate
    lastCall,          \* the last call made on the Table or the Row Store
    store,             \* a stand-alone Data<T> object
    other              \* a second DataFrame<T>, constructed from the first

vars == <<formats, assetsToFeatures, data, status, lastCall, store, other>>

(***************************************************************************)
(* Bounds of the model and input pools                                     *)
(***************************************************************************)
MaxRows == 2          \* data rows per file
MaxAddedFormats == 1  \* calls of addDateFormat
MaxFormats == 2       \* formats added by addDateFormat(vector)
FirstYear == 1899     \* the years of the dates given to getDayOfWeek
LastYear == 2021

Assets == {"A", "B"}
Features == {"Open", "Close"}

\* T{} for T = double
Default == 0
\* the doubles of the model
Values == {Default, 5}

EmptyStore == [a \in {} |-> [f \in {} |-> Default]]

(***************************************************************************)
(* Data<T>, the Row Store                                                  *)
(***************************************************************************)
\* does the Row Store hold the pair (asset, feature)
Has(obj, asset, feature) ==
    /\ asset \in DOMAIN obj
    /\ feature \in DOMAIN obj[asset]

\* Data<T>::setData with the emplace of an existing pair replaced by an
\* assignment
setDataOverwrite(obj, asset, feature, val) ==
    IF asset \notin DOMAIN obj
    THEN obj @@ (asset :> (feature :> val))
    ELSE [obj EXCEPT ![asset] = (feature :> val) @@ obj[asset]]

\* Data<T>::setData
setData(obj, asset, feature, val) ==
    IF asset \notin DOMAIN obj
    THEN obj @@ (asset :> (feature :> val))
    ELSE IF feature \notin DOMAIN obj[asset]
         THEN [obj EXCEPT ![asset] = obj[asset] @@ (feature :> val)]
         ELSE obj

\* Data<T>::getData
getData(obj, asset, feature) ==
    IF DOMAIN obj # {}
    THEN IF asset \in DOMAIN obj
         THEN IF feature \in DOMAIN obj[asset]
              THEN obj[asset][feature]
              ELSE Default
         ELSE Default
    ELSE Default

\* Data<T>::empty
empty(obj) == DOMAIN obj = {}

(***************************************************************************)
(* Dates                                                                   *)
(*                                                                         *)
(* A bpt::ptime is its tick count; minutes are the ticks of the model and  *)
(* days are counted from 2019-12-31.  Date text is the record of what is   *)
(* written: its layout, and the day and minute of day it names.            *)
(***************************************************************************)
\* a bpt::ptime of a day and a minute of that day
Ptime(day, minute) == day * 1440 + minute

\* bpt::ptime(), not_a_date_time: the tick count above every date
NotADateTime == 1000000

DateText(layout, day, minute) == [layout |-> layout, day |-> day, minute |-> minute]

Text_2020_01_01 == DateText("Y-m-d", 1, 0)
Text_2020_01_02 == DateText("Y-m-d", 2, 0)
\* text that no default format reads
Text_02_01_2020 == DateText("d-m-Y", 2, 0)

DefaultFormats == <<"%Y-%m-%d", "%Y-%m-%d %H:%M", "%Y-%m-%d %H:%M:%S">>

\* the formats the caller registers with addDateFormat
ExtraFormats == {"%d-%m-%Y"}

\* is >> date with one format imbued: the fields the format names are read
\* from the front of the text, a field the text ends before is left zero,
\* and text the format cannot read leaves date as it was constructed.
\* Text of layout d-m-Y is dd-01-2020 with dd in 01..12: "%d-%m-%Y" reads
\* it as day dd of January and "%m-%d-%Y" as the first day of month dd
\* (the second day of the year plus 31 days is the first of February).
ParseWith(format, text) ==
    IF format = "%Y-%m-%d"
    THEN IF text.layout \in {"Y-m-d", "Y-m-d H:M"}
         THEN Ptime(text.day, 0)
         ELSE NotADateTime
    ELSE IF format \in {"%Y-%m-%d %H:%M", "%Y-%m-%d %H:%M:%S"}
    THEN IF text.layout \in {"Y-m-d", "Y-m-d H:M"}
         THEN Ptime(text.day, text.minute)
         ELSE NotADateTime
    ELSE IF format = "%d-%m-%Y"
    THEN IF text.layout = "d-m-Y"
         THEN Ptime(text.day, 0)
         ELSE NotADateTime
    ELSE IF format = "%m-%d-%Y"
    THEN IF text.layout = "d-m-Y"
         THEN Ptime(31 * (text.day - 1) + 1, 0)
         ELSE NotADateTime
    ELSE NotADateTime

\* the format loop of fromCSV without its break: the last format that
\* parses the text decides
RECURSIVE ParseFromNoBreak(_, _, _)
ParseFromNoBreak(fmts, text, i) ==
    IF i > Len(fmts)
    THEN NotADateTime
    ELSE LET date == ParseWith(fmts[i], text)
             later == ParseFromNoBreak(fmts, text, i + 1)
         IN  IF later # NotADateTime THEN later ELSE date

\* the format loop of fromCSV from format i on: the first format whose parse
\* is not bpt::ptime() ends the loop
RECURSIVE ParseFrom(_, _, _)
ParseFrom(fmts, text, i) ==
    IF i > Len(fmts)
    THEN NotADateTime
    ELSE LET date == ParseWith(fmts[i], text)
         IN  IF date # NotADateTime THEN date ELSE ParseFrom(fmts, text, i + 1)

ParseDate(fmts, text) == ParseFrom(fmts, text, 1)

(***************************************************************************)
(* Files                                                                   *)
(*                                                                         *)
(* A file is its header's feature tokens (the tokens after the first) and  *)
(* its data rows, each a date text and the value tokens after it; a path   *)
(* that cannot be opened is a file that is not openable.                   *)
(***************************************************************************)
Row(date, vals) == [date |-> date, vals |-> vals]

Headers == {<<>>, <<"Open">>, <<"Open", "Close">>, <<"Open", "Open">>}

RowPool == {Row(Text_2020_01_02, <<"5", "x">>),
            Row(Text_2020_01_01, <<"5">>),
            Row(Text_02_01_2020, <<"x", "">>)}

RECURSIVE SeqsUpTo(_, _)
SeqsUpTo(S, n) ==
    IF n = 0
    THEN {<<>>}
    ELSE LET shorter == SeqsUpTo(S, n - 1)
         IN  shorter \cup {Append(s, x) : s \in shorter, x \in S}

NoFile == [openable |-> FALSE, header |-> <<>>, rows |-> <<>>]

Files == {[openable |-> TRUE, header |-> h, rows |-> rs] :
             h \in Headers, rs \in SeqsUpTo(RowPool, MaxRows)}

Paths == Files \cup {NoFile}

(***************************************************************************)
(* std::map<bpt::ptime, Data<T>>                                           *)
(***************************************************************************)
Entry(date, obj) == [date |-> date, obj |-> obj]

Dates(d) == {d[i].date : i \in 1..Len(d)}

\* data.at(date)
At(d, date) == (CHOOSE i \in 1..Len(d) : d[i].date = date)

\* data.emplace with the new entry put last
EmplaceLast(d, date, obj) ==
    IF date \in Dates(d) THEN d ELSE Append(d, Entry(date, obj))

\* data.emplace putting the new Row Store in the place of the one a held
\* key has
EmplaceAssigned(d, date, obj) ==
    IF date \in Dates(d)
    THEN [d EXCEPT ![At(d, date)].obj = obj]
    ELSE LET k == Cardinality({i \in 1..Len(d) : d[i].date < date})
         IN  SubSeq(d, 1, k) \o <<Entry(date, obj)>> \o SubSeq(d, k + 1, Len(d))

\* data.emplace: a new key takes its place in key order, a held key is left
Emplace(d, date, obj) ==
    IF date \in Dates(d)
    THEN d
    ELSE LET k == Cardinality({i \in 1..Len(d) : d[i].date < date})
         IN  SubSeq(d, 1, k) \o <<Entry(date, obj)>> \o SubSeq(d, k + 1, Len(d))

(***************************************************************************)
(* DataFrame<T>                                                            *)
(***************************************************************************)
Digits == ("5" :> 5)

\* DataFrame<T>::convert: val is not initialised, ss >> val stores the number
\* read, stores zero when the text is no number, and stores nothing when the
\* text is empty, which leaves val indeterminate
convert(str, indeterminate) ==
    IF str = ""
    THEN indeterminate
    ELSE IF str \in DOMAIN Digits
         THEN Digits[str]
         ELSE 0

\* the cells of the file whose conversion reads an indeterminate value
EmptyCells(file) ==
    {<<r, c>> \in (1..Len(file.rows)) \X (1..Len(file.header)) :
        /\ c <= Len(file.rows[r].vals)
        /\ file.rows[r].vals[c] = ""}

Indeterminate(garbage, r, c) ==
    IF <<r, c>> \in DOMAIN garbage THEN garbage[<<r, c>>] ELSE Default

\* insertData converting the first value of the row for every feature
RECURSIVE insertDataFirstValue(_, _, _, _, _, _, _)
insertDataFirstValue(dataObj, asset, features, rowData, garbage, r, i) ==
    IF i > Len(features)
    THEN [obj |-> dataObj, threw |-> FALSE]
    ELSE IF i > Len(rowData)
         THEN [obj |-> dataObj, threw |-> TRUE]
         ELSE insertDataFirstValue(
                  setData(dataObj, asset, features[i],
                          convert(rowData[1], Indeterminate(garbage, r, 1))),
                  asset, features, rowData, garbage, r, i + 1)

\* DataFrame<T>::insertData from feature i on for row r of the file;
\* rowData.at(i) past the end throws std::out_of_range
RECURSIVE insertData(_, _, _, _, _, _, _)
insertData(dataObj, asset, features, rowData, garbage, r, i) ==
    IF i > Len(features)
    THEN [obj |-> dataObj, threw |-> FALSE]
    ELSE IF i > Len(rowData)
         THEN [obj |-> dataObj, threw |-> TRUE]
         ELSE insertData(setData(dataObj, asset, features[i],
                                 convert(rowData[i], Indeterminate(garbage, r, i))),
                         asset, features, rowData, garbage, r, i + 1)

\* the row loop of fromCSV passing over the rows whose date is not parsed
RECURSIVE ReadRowsSkipUnparsed(_, _, _, _, _, _, _)
ReadRowsSkipUnparsed(d, fmts, asset, features, rows, garbage, r) ==
    IF r > Len(rows)
    THEN [data |-> d, threw |-> FALSE]
    ELSE LET date == ParseDate(fmts, rows[r].date)
             created == Emplace(d, date, EmptyStore)
             at == At(created, date)
             ins == insertData(created[at].obj, asset, features,
                               rows[r].vals, garbage, r, 1)
             merged == [created EXCEPT ![at].obj = ins.obj]
         IN  IF date = NotADateTime
             THEN ReadRowsSkipUnparsed(d, fmts, asset, features, rows, garbage, r + 1)
             ELSE IF ins.threw
                  THEN [data |-> merged, threw |-> TRUE]
                  ELSE ReadRowsSkipUnparsed(merged, fmts, asset, features, rows,
                                            garbage, r + 1)

\* the row loop of fromCSV from row r on
RECURSIVE ReadRows(_, _, _, _, _, _, _)
ReadRows(d, fmts, asset, features, rows, garbage, r) ==
    IF r > Len(rows)
    THEN [data |-> d, threw |-> FALSE]
    ELSE LET date == ParseDate(fmts, rows[r].date)
             created == Emplace(d, date, EmptyStore)
             at == At(created, date)
             ins == insertData(created[at].obj, asset, features,
                               rows[r].vals, garbage, r, 1)
             merged == [created EXCEPT ![at].obj = ins.obj]
         IN  IF ins.threw
             THEN [data |-> merged, threw |-> TRUE]
             ELSE ReadRows(merged, fmts, asset, features, rows, garbage, r + 1)

\* the header's features without the first of them
RangeAfterFirst(s) == {s[i] : i \in 2..Len(s)}

Range(s) == {s[i] : i \in 1..Len(s)}

\* the test of fromCSV for a registered asset made on an index that is
\* filled only after the call, so that it never finds the asset
containsAssetMissed(index, asset) == asset \in DOMAIN [a \in {} |-> index]

\* assetsToFeatures.find(asset) != assetsToFeatures.end()
containsAsset(index, asset) == asset \in DOMAIN index

\* the record of a call: its arguments, how it ended, the value it returned
\* (val, for getData), the number of entries it erased (erased, for
\* removeEmptyDates) and the formats it was given (added, for addDateFormat)
NoCall == [op |-> "none", asset |-> "", feature |-> "", date |-> NotADateTime,
           val |-> Default, file |-> NoFile, outcome |-> "none", erased |-> 0,
           added |-> <<>>]

\* DataFrame<T>::fromCSV(asset, path).  The function is noexcept, so the
\* exception it throws for a file that cannot be opened, and the one that
\* insertData lets escape, end the program in std::terminate.
fromCSV(asset, file) ==
    /\ status = "running"
    /\ IF containsAsset(assetsToFeatures, asset)
       THEN /\ lastCall' = [NoCall EXCEPT !.op = "fromCSV", !.asset = asset,
                                          !.file = file, !.outcome = "exists"]
            /\ UNCHANGED <<formats, assetsToFeatures, data, status, store, other>>
       ELSE IF ~file.openable
       THEN /\ status' = "terminated"
            /\ lastCall' = [NoCall EXCEPT !.op = "fromCSV", !.asset = asset,
                                          !.outcome = "open failed"]
            /\ UNCHANGED <<formats, assetsToFeatures, data, store, other>>
       ELSE \E garbage \in [EmptyCells(file) -> Values] :
              LET read == ReadRows(data, formats, asset, file.header,
                                   file.rows, garbage, 1)
              IN  /\ assetsToFeatures' =
                        assetsToFeatures @@ (asset :> Range(file.header))
                  /\ data' = read.data
                  /\ status' = IF read.threw THEN "terminated" ELSE "running"
                  /\ lastCall' = [NoCall EXCEPT
                                     !.op = "fromCSV", !.asset = asset,
                                     !.file = file,
                                     !.outcome = IF read.threw THEN "out of range"
                                                 ELSE "returned"]
                  /\ UNCHANGED <<formats, store, other>>

\* the loop of removeEmptyDates stepping past the entry that follows an
\* erased one
RECURSIVE EraseEmptyAndStep(_, _)
EraseEmptyAndStep(d, i) ==
    IF i > Len(d)
    THEN d
    ELSE IF empty(d[i].obj)
         THEN EraseEmptyAndStep(SubSeq(d, 1, i - 1) \o SubSeq(d, i + 1, Len(d)), i + 1)
         ELSE EraseEmptyAndStep(d, i + 1)

\* the loop of removeEmptyDates from entry i on
RECURSIVE EraseEmpty(_, _)
EraseEmpty(d, i) ==
    IF i > Len(d)
    THEN d
    ELSE IF empty(d[i].obj)
         THEN EraseEmpty(SubSeq(d, 1, i - 1) \o SubSeq(d, i + 1, Len(d)), i)
         ELSE EraseEmpty(d, i + 1)

\* DataFrame<T>::removeEmptyDates
removeEmptyDates ==
    /\ status = "running"
    /\ data' = EraseEmpty(data, 1)
    /\ lastCall' = [NoCall EXCEPT !.op = "removeEmptyDates", !.outcome = "returned",
                                  !.erased = Len(data) - Len(EraseEmpty(data, 1))]
    /\ UNCHANGED <<formats, assetsToFeatures, status, store, other>>

\* DataFrame<T>::getData: T t is not initialised, so the value returned for
\* a date the Table does not hold is indeterminate
DataFrame_getData(d, date, asset, feature, indeterminate) ==
    IF date \in Dates(d)
    THEN getData(d[At(d, date)].obj, asset, feature)
    ELSE indeterminate

\* a call of DataFrame<T>::getData
CallGetData(date, asset, feature) ==
    /\ status = "running"
    /\ \E indeterminate \in Values :
          lastCall' = [NoCall EXCEPT
                          !.op = "getData", !.date = date, !.asset = asset,
                          !.feature = feature, !.outcome = "returned",
                          !.val = DataFrame_getData(data, date, asset, feature,
                                               indeterminate)]
    /\ UNCHANGED <<formats, assetsToFeatures, data, status, store, other>>

\* DataFrame<T>::addDateFormat(format)
addDateFormat(format) ==
    /\ status = "running"
    /\ Len(formats) < Len(DefaultFormats) + MaxAddedFormats
    /\ formats' = Append(formats, format)
    /\ lastCall' = [NoCall EXCEPT !.op = "addDateFormat", !.outcome = "returned",
                                  !.added = <<format>>]
    /\ UNCHANGED <<assetsToFeatures, data, status, store, other>>

\* the loop of addDateFormat(vector) from format i on
RECURSIVE EmplaceBackAll(_, _, _)
EmplaceBackAll(fmts, format, i) ==
    IF i > Len(format)
    THEN fmts
    ELSE EmplaceBackAll(Append(fmts, format[i]), format, i + 1)

\* DataFrame<T>::addDateFormat(const std::vector<std::string>&)
addDateFormats(format) ==
    /\ status = "running"
    /\ Len(formats) + Len(format) <= Len(DefaultFormats) + MaxFormats
    /\ formats' = EmplaceBackAll(formats, format, 1)
    /\ lastCall' = [NoCall EXCEPT !.op = "addDateFormat", !.outcome = "returned",
                                  !.added = format]
    /\ UNCHANGED <<assetsToFeatures, data, status, store, other>>

(***************************************************************************)
(* A second Table                                                          *)
(***************************************************************************)
\* no second DataFrame<T> has been constructed
NoTable == [built |-> "none", formats |-> <<>>,
            assetsToFeatures |-> [a \in {} |-> {}], data |-> <<>>]

(***************************************************************************)
(* The Row Store on its own                                                *)
(***************************************************************************)
StoreSetData(asset, feature, val) ==
    /\ store' = setData(store, asset, feature, val)
    /\ lastCall' = [NoCall EXCEPT !.op = "setData", !.asset = asset,
                                  !.feature = feature, !.val = val,
                                  !.outcome = "returned"]
    /\ UNCHANGED <<formats, assetsToFeatures, data, status, other>>

Init ==
    /\ formats = DefaultFormats
    /\ assetsToFeatures = [a \in {} |-> {}]
    /\ data = <<>>
    /\ status = "running"
    /\ lastCall = NoCall
    /\ store = EmptyStore
    /\ other = NoTable

\* The paths fromCSV is called with.  For a registered asset the call
\* returns before it uses its path, so two paths stand for all of them: the
\* one that cannot be opened and one file.
OtherFile == [openable |-> TRUE, header |-> <<"Open", "Close">>,
              rows |-> <<Row(Text_2020_01_01, <<"5">>)>>]

PathsOf(asset) ==
    IF asset \in DOMAIN assetsToFeatures THEN {NoFile, OtherFile} ELSE Paths

Next ==
    \/ \E asset \in Assets : \E file \in PathsOf(asset) : fromCSV(asset, file)
    \/ removeEmptyDates
    \/ \E format \in ExtraFormats : addDateFormat(format)

Spec == Init /\ [][Next]_vars

\* the dates a caller looks up
QueryDates == {Ptime(1, 0), Ptime(2, 0), NotADateTime}

NextQuery ==
    \/ Next
    \/ \E date \in QueryDates, asset \in Assets, feature \in Features :
          CallGetData(date, asset, feature)

SpecQuery == Init /\ [][NextQuery]_vars

NextRow ==
    \E asset \in Assets, feature \in Features, val \in Values :
        StoreSetData(asset, feature, val)

SpecRow == Init /\ [][NextRow]_vars

(***************************************************************************)
(* The format loop: files of one row, one for each date text, read with    *)
(* the formats the caller has added                                        *)
(***************************************************************************)
Text_2020_01_01_10_30 == DateText("Y-m-d H:M", 1, 630)
Text_junk == DateText("junk", 0, 0)

ParseTexts == {Text_2020_01_01, Text_2020_01_02, Text_2020_01_01_10_30,
               Text_02_01_2020, Text_junk}

ParseFormats == {"%d-%m-%Y", "%m-%d-%Y", "%Y-%m-%d %H:%M"}

ParseFiles == {[openable |-> TRUE, header |-> <<"Open">>,
                rows |-> <<Row(text, <<"5">>)>>] : text \in ParseTexts}

NextParse ==
    \/ \E asset \in Assets, file \in ParseFiles : fromCSV(asset, file)
    \/ \E format \in SeqsUpTo(ParseFormats, MaxFormats) \ {<<>>} :
          addDateFormats(format)

SpecParse == Init /\ [][NextParse]_vars

(***************************************************************************)
(* getDayOfWeek.  Its argument is the calendar date date.date() of the     *)
(* bpt::ptime: a year, a month and a day of the Gregorian calendar.        *)
(***************************************************************************)
IsLeapYear(year) ==
    /\ year % 4 = 0
    /\ year % 100 # 0 \/ year % 400 = 0

DaysInMonth(year, month) ==
    IF month = 2
    THEN IF IsLeapYear(year) THEN 29 ELSE 28
    ELSE IF month \in {4, 6, 9, 11} THEN 30 ELSE 31

CalendarDates ==
    {date \in [year : FirstYear..LastYear, month : 1..12, day : 1..31] :
        date.day <= DaysInMonth(date.year, date.month)}

\* static const int t[]
t == <<0, 3, 2, 5, 0, 3, 5, 1, 4, 6, 2, 4>>

\* getDayOfWeek without year -= (month < 3)
getDayOfWeekSameYear(date) ==
    LET year == date.year
    IN  (year + (year \div 4) - (year \div 100) + (year \div 400)
              + t[date.month] + date.day) % 7

\* DataFrame<T>::getDayOfWeek
getDayOfWeek(date) ==
    LET year == date.year - (IF date.month < 3 THEN 1 ELSE 0)
    IN  (year + (year \div 4) - (year \div 100) + (year \div 400)
              + t[date.month] + date.day) % 7

\* the caller holds a date it has not yet asked the day of the week of
InitDayOfWeek ==
    /\ formats = DefaultFormats
    /\ assetsToFeatures = [a \in {} |-> {}]
    /\ data = <<>>
    /\ status = "running"
    /\ store = EmptyStore
    /\ other = NoTable
    /\ \E date \in CalendarDates :
          lastCall = [NoCall EXCEPT !.op = "date", !.date = date]

\* a call of DataFrame<T>::getDayOfWeek with the date the caller holds
CallGetDayOfWeek ==
    /\ status = "running"
    /\ lastCall.op = "date"
    /\ lastCall' = [NoCall EXCEPT !.op = "getDayOfWeek", !.date = lastCall.date,
                                  !.outcome = "returned",
                                  !.val = getDayOfWeek(lastCall.date)]
    /\ UNCHANGED <<formats, assetsToFeatures, data, status, store, other>>

NextDayOfWeek == CallGetDayOfWeek

SpecDayOfWeek == InitDayOfWeek /\ [][NextDayOfWeek]_vars

(***************************************************************************)
(* Copy and move construction.  The Table of the variables formats,        *)
(* assetsToFeatures and data is the argument obj of the constructor, and   *)
(* other is the Table constructed.                                         *)
(***************************************************************************)
\* DataFrame(const DataFrame<T>& obj): each member is copy-constructed
CopyConstruct ==
    /\ status = "running"
    /\ other.built = "none"
    /\ other' = [built |-> "copy", formats |-> formats,
                 assetsToFeatures |-> assetsToFeatures, data |-> data]
    /\ lastCall' = [NoCall EXCEPT !.op = "copy construct", !.outcome = "returned"]
    /\ UNCHANGED <<formats, assetsToFeatures, data, status, store>>

\* DataFrame(DataFrame<T>&& obj): the initialisers name obj.formats,
\* obj.assetsToFeatures and obj.data, which are lvalues, so each member is
\* copy-constructed and obj keeps its content
MoveConstruct ==
    /\ status = "running"
    /\ other.built = "none"
    /\ other' = [built |-> "move", formats |-> formats,
                 assetsToFeatures |-> assetsToFeatures, data |-> data]
    /\ lastCall' = [NoCall EXCEPT !.op = "move construct", !.outcome = "returned"]
    /\ UNCHANGED <<formats, assetsToFeatures, data, status, store>>

\* DataFrame<T>::fromCSV(asset, path) called on the Table constructed
otherFromCSV(asset, file) ==
    /\ status = "running"
    /\ other.built # "none"
    /\ IF containsAsset(other.assetsToFeatures, asset)
       THEN /\ lastCall' = [NoCall EXCEPT !.op = "other.fromCSV", !.asset = asset,
                                          !.file = file, !.outcome = "exists"]
            /\ UNCHANGED <<formats, assetsToFeatures, data, status, store, other>>
       ELSE IF ~file.openable
       THEN /\ status' = "terminated"
            /\ lastCall' = [NoCall EXCEPT !.op = "other.fromCSV", !.asset = asset,
                                          !.outcome = "open failed"]
            /\ UNCHANGED <<formats, assetsToFeatures, data, store, other>>
       ELSE \E garbage \in [EmptyCells(file) -> Values] :
              LET read == ReadRows(other.data, other.formats, asset, file.header,
                                   file.rows, garbage, 1)
              IN  /\ other' = [other EXCEPT
                                  !.assetsToFeatures =
                                      @ @@ (asset :> Range(file.header)),
                                  !.data = read.data]
                  /\ status' = IF read.threw THEN "terminated" ELSE "running"
                  /\ lastCall' = [NoCall EXCEPT
                                     !.op = "other.fromCSV", !.asset = asset,
                                     !.file = file,
                                     !.outcome = IF read.threw THEN "out of range"
                                                 ELSE "returned"]
                  /\ UNCHANGED <<formats, assetsToFeatures, data, store>>

\* DataFrame<T>::removeEmptyDates called on the Table constructed
otherRemoveEmptyDates ==
    /\ status = "running"
    /\ other.built # "none"
    /\ other' = [other EXCEPT !.data = EraseEmpty(other.data, 1)]
    /\ lastCall' = [NoCall EXCEPT
                       !.op = "other.removeEmptyDates", !.outcome = "returned",
                       !.erased = Len(other.data) - Len(EraseEmpty(other.data, 1))]
    /\ UNCHANGED <<formats, assetsToFeatures, data, status, store>>

\* the files the two Tables ingest: no header or one feature, and one row
\* whose date the formats of a new Table parse
CopyFiles == {[openable |-> TRUE, header |-> h, rows |-> <<row>>] :
                 h \in {<<>>, <<"Open">>},
                 row \in {r \in RowPool :
                             ParseDate(DefaultFormats, r.date) # NotADateTime}}

CopyPaths == CopyFiles \cup {NoFile}

NextCopy ==
    \/ \E asset \in Assets : \E file \in CopyPaths : fromCSV(asset, file)
    \/ removeEmptyDates
    \/ CopyConstruct
    \/ MoveConstruct
    \/ \E asset \in Assets : \E file \in CopyPaths : otherFromCSV(asset, file)
    \/ otherRemoveEmptyDates

SpecCopy == Init /\ [][NextCopy]_vars

(***************************************************************************)
(* C1: a pair that is set keeps its value over every later setData, and a  *)
(* setData of an absent pair makes getData return the value written.       *)
(***************************************************************************)
FirstWriteWins ==
    [][\A a \in Assets, f \in Features :
          /\ Has(store, a, f) =>
                /\ Has(store', a, f)
                /\ getData(store', a, f) = getData(store, a, f)
          /\ (/\ ~Has(store, a, f)
              /\ lastCall'.op = "setData"
              /\ lastCall'.asset = a
              /\ lastCall'.feature = f) =>
                /\ Has(store', a, f)
                /\ getData(store', a, f) = lastCall'.val]_vars

\* a second setData of a held pair with another value has been made
FirstWriteWinsWitness ==
    /\ lastCall.op = "setData"
    /\ Has(store, lastCall.asset, lastCall.feature)
    /\ getData(store, lastCall.asset, lastCall.feature) # lastCall.val
    /\ \E a \in Assets : a # lastCall.asset /\ a \in DOMAIN store

(***************************************************************************)
(* Notions the claims about fromCSV share                                  *)
(***************************************************************************)
\* the step is a call of fromCSV that reads a file for an asset that is new
Ingests ==
    /\ lastCall'.op = "fromCSV"
    /\ lastCall'.asset \notin DOMAIN assetsToFeatures
    /\ lastCall'.file.openable

\* the date row r of the file is stored under, with the formats of the call
DateOfRow(file, r) == ParseDate(formats, file.rows[r].date)

\* row r has fewer value columns than the header has features
IsShort(file, r) == Len(file.rows[r].vals) < Len(file.header)

HasShortRow(file) == \E r \in 1..Len(file.rows) : IsShort(file, r)

\* the Row Store the Table holds at a date
StoreAt(d, date) == d[At(d, date)].obj

(***************************************************************************)
(* C2: fromCSV with an asset that is already registered returns without    *)
(* an error and leaves the asset index, the dates, every Row Store and the *)
(* formats as they were, whatever its path.                                *)
(***************************************************************************)
DuplicateAssetIsNoOp ==
    [][(/\ lastCall'.op = "fromCSV"
        /\ lastCall'.asset \in DOMAIN assetsToFeatures) =>
            /\ status' = "running"
            /\ UNCHANGED <<assetsToFeatures, data, formats>>]_vars

\* a registered asset has been ingested again from a file with fresh rows
DuplicateAssetWitness ==
    /\ lastCall.op = "fromCSV"
    /\ lastCall.outcome = "exists"
    /\ lastCall.file.openable
    /\ lastCall.file.rows # <<>>
    /\ status = "running"
    /\ data # <<>>

(***************************************************************************)
(* C3: fromCSV with a new asset and a path that cannot be opened signals   *)
(* an error the caller can catch, so that the program goes on in the       *)
(* caller, and leaves the Table as it was.                                 *)
(***************************************************************************)
UnopenableFileIsCatchable ==
    [][(/\ lastCall'.op = "fromCSV"
        /\ lastCall'.asset \notin DOMAIN assetsToFeatures
        /\ ~lastCall'.file.openable) =>
            /\ status' = "running"
            /\ UNCHANGED <<assetsToFeatures, data>>]_vars

(***************************************************************************)
(* C4: a data row with fewer value columns than the header has features    *)
(* raises no error; the features its columns cover are set at its date and *)
(* the rows after it are ingested.                                         *)
(***************************************************************************)
ShortRowRaisesNoError ==
    [][(Ingests /\ HasShortRow(lastCall'.file)) =>
            /\ status' = "running"
            /\ \A r \in 1..Len(lastCall'.file.rows) :
                  /\ DateOfRow(lastCall'.file, r) \in Dates(data')
                  /\ \A i \in 1..Len(lastCall'.file.header) :
                        i <= Len(lastCall'.file.rows[r].vals) =>
                            Has(StoreAt(data', DateOfRow(lastCall'.file, r)),
                                lastCall'.asset, lastCall'.file.header[i])]_vars

(***************************************************************************)
(* C5: a file whose rows have distinct parseable dates and at least as     *)
(* many value columns as its header has features, the features distinct,   *)
(* ingested into an empty Table: size() is the number of rows, getData of  *)
(* each row's date and each header feature i is the conversion of the      *)
(* row's i-th value, and the columns past the header make no entry.        *)
(***************************************************************************)
IsPositional(file) ==
    /\ \A r \in 1..Len(file.rows) :
          /\ DateOfRow(file, r) # NotADateTime
          /\ ~IsShort(file, r)
    /\ \A r1, r2 \in 1..Len(file.rows) :
          r1 # r2 => DateOfRow(file, r1) # DateOfRow(file, r2)
    /\ \A i, j \in 1..Len(file.header) :
          i # j => file.header[i] # file.header[j]

PositionalRoundTrip ==
    [][(Ingests /\ data = <<>> /\ IsPositional(lastCall'.file)) =>
            LET file == lastCall'.file
                asset == lastCall'.asset
            IN  /\ status' = "running"
                /\ Len(data') = Len(file.rows)
                /\ \A r \in 1..Len(file.rows) :
                      /\ \A i \in 1..Len(file.header) :
                            \E u \in Values :
                               DataFrame_getData(data', DateOfRow(file, r), asset,
                                            file.header[i], Default)
                                 = convert(file.rows[r].vals[i], u)
                      /\ file.header # <<>> =>
                            /\ DOMAIN StoreAt(data', DateOfRow(file, r)) = {asset}
                            /\ DOMAIN StoreAt(data', DateOfRow(file, r))[asset]
                                 = Range(file.header)]_vars

\* a file of two rows with more columns than features has been ingested
PositionalRoundTripWitness ==
    /\ lastCall.op = "fromCSV"
    /\ lastCall.outcome = "returned"
    /\ Len(lastCall.file.rows) = 2
    /\ Len(data) = 2
    /\ \A i \in 1..2 :
          /\ data[i].date # NotADateTime
          /\ DOMAIN data[i].obj = {lastCall.asset}
    /\ \E r \in 1..2 : Len(lastCall.file.rows[r].vals) > Len(lastCall.file.header)
    /\ \E r \in 1..2 :
          DataFrame_getData(data, data[r].date, lastCall.asset, "Open", Default) = 5

(***************************************************************************)
(* C6: Table getData returns the default value when the Table does not     *)
(* hold the date, or holds it without the (asset, feature) pair, and the   *)
(* stored value otherwise.                                                 *)
(***************************************************************************)
MissingLookupReturnsDefault ==
    lastCall.op = "getData" =>
        lastCall.val =
            IF /\ lastCall.date \in Dates(data)
               /\ Has(StoreAt(data, lastCall.date), lastCall.asset, lastCall.feature)
            THEN StoreAt(data, lastCall.date)[lastCall.asset][lastCall.feature]
            ELSE Default

(***************************************************************************)
(* C7: removeEmptyDates leaves exactly the entries whose Row Store is not  *)
(* empty, in their order and unchanged, leaves the asset index unchanged,  *)
(* and a second removeEmptyDates would change nothing.                     *)
(***************************************************************************)
IsNotEmpty(entry) == entry.obj # EmptyStore

RemoveEmptyDatesPrunes ==
    [][lastCall'.op = "removeEmptyDates" =>
            /\ data' = SelectSeq(data, IsNotEmpty)
            /\ UNCHANGED <<assetsToFeatures, formats, status>>
            /\ \A i \in 1..Len(data') : data'[i].obj # EmptyStore]_vars

\* a prune has erased two entries and kept one
RemoveEmptyDatesWitness ==
    /\ lastCall.op = "removeEmptyDates"
    /\ lastCall.erased >= 2
    /\ data # <<>>

(***************************************************************************)
(* C8: iteration from begin() visits the dates in ascending order,         *)
(* iteration from rbegin() visits them in descending order, and both visit *)
(* the same dates, each once.                                              *)
(***************************************************************************)
Forward(d) == [i \in 1..Len(d) |-> d[i].date]

Backward(d) == [i \in 1..Len(d) |-> d[Len(d) + 1 - i].date]

SortedIteration ==
    /\ \A i, j \in 1..Len(data) : i < j => Forward(data)[i] < Forward(data)[j]
    /\ \A i, j \in 1..Len(data) : i < j => Backward(data)[i] > Backward(data)[j]
    /\ Range(Forward(data)) = Range(Backward(data))

\* a file whose rows run from the later date to the earlier has been read
SortedIterationWitness ==
    /\ lastCall.op = "fromCSV"
    /\ lastCall.outcome = "returned"
    /\ Len(lastCall.file.rows) = 2
    /\ ParseDate(formats, lastCall.file.rows[1].date)
         > ParseDate(formats, lastCall.file.rows[2].date)
    /\ Len(data) >= 3

(***************************************************************************)
(* C9: a row whose date text no format parses raises no error and is       *)
(* stored under not_a_date_time, the one entry all such rows share: what   *)
(* the entry held stays, the row's values are merged in, and the other     *)
(* rows of the file are ingested.                                          *)
(***************************************************************************)
HasUnparseableRow(file) ==
    \E r \in 1..Len(file.rows) : DateOfRow(file, r) = NotADateTime

UnparseableDateDegrades ==
    [][(/\ Ingests
        /\ HasUnparseableRow(lastCall'.file)
        /\ ~HasShortRow(lastCall'.file)) =>
            LET file == lastCall'.file
                asset == lastCall'.asset
            IN  /\ status' = "running"
                /\ Cardinality({i \in 1..Len(data') : data'[i].date = NotADateTime}) = 1
                /\ \A i \in 1..Len(file.header) :
                      Has(StoreAt(data', NotADateTime), asset, file.header[i])
                /\ NotADateTime \in Dates(data) =>
                      \A a \in DOMAIN StoreAt(data, NotADateTime) :
                          /\ a \in DOMAIN StoreAt(data', NotADateTime)
                          /\ StoreAt(data', NotADateTime)[a]
                               = StoreAt(data, NotADateTime)[a]
                /\ \A r \in 1..Len(file.rows) :
                      /\ DateOfRow(file, r) \in Dates(data')
                      /\ \A i \in 1..Len(file.header) :
                            Has(StoreAt(data', DateOfRow(file, r)), asset,
                                file.header[i])]_vars

\* rows of two files share the entry of not_a_date_time, next to a dated row
UnparseableDateWitness ==
    /\ status = "running"
    /\ NotADateTime \in Dates(data)
    /\ DOMAIN StoreAt(data, NotADateTime) = Assets
    /\ lastCall.op = "fromCSV"
    /\ Len(lastCall.file.rows) = 2
    /\ Len(data) >= 2

(***************************************************************************)
(* C10: a value token that cannot be converted, the empty token included,  *)
(* is stored as the default value and raises no error.                     *)
(***************************************************************************)
\* the cell (r, i) is the first of the file for its date and feature
IsFirstWrite(file, r, i) ==
    \A r2 \in 1..Len(file.rows), i2 \in 1..Len(file.header) :
        (/\ r2 < r \/ (r2 = r /\ i2 < i)
         /\ i2 <= Len(file.rows[r2].vals)
         /\ DateOfRow(file, r2) = DateOfRow(file, r)) =>
            file.header[i2] # file.header[i]

ConversionFailureYieldsDefault ==
    [][(Ingests /\ ~HasShortRow(lastCall'.file)) =>
            LET file == lastCall'.file
            IN  /\ status' = "running"
                /\ \A r \in 1..Len(file.rows), i \in 1..Len(file.header) :
                      (/\ file.rows[r].vals[i] \notin DOMAIN Digits
                       /\ IsFirstWrite(file, r, i)) =>
                          DataFrame_getData(data', DateOfRow(file, r), lastCall'.asset,
                                       file.header[i], Default) = Default]_vars

(***************************************************************************)
(* C11: the formats are the three defaults followed by the formats added,  *)
(* in the order they were added, and a row is stored under the date parsed *)
(* by the first format in that order whose parse is valid, whatever the    *)
(* formats after it parse.                                                 *)
(***************************************************************************)
\* the formats of fmts that parse the text, by their place in fmts
ValidFormats(fmts, text) ==
    {i \in 1..Len(fmts) : ParseWith(fmts[i], text) # NotADateTime}

\* the parse of the text by the first format of fmts that parses it
FirstValidParse(fmts, text) ==
    IF ValidFormats(fmts, text) = {}
    THEN NotADateTime
    ELSE ParseWith(fmts[CHOOSE i \in ValidFormats(fmts, text) :
                           \A j \in ValidFormats(fmts, text) : i <= j], text)

FormatTrialOrder ==
    [][/\ SubSeq(formats', 1, Len(DefaultFormats)) = DefaultFormats
       /\ lastCall'.op = "addDateFormat" => formats' = formats \o lastCall'.added
       /\ lastCall'.op # "addDateFormat" => formats' = formats
       /\ Ingests =>
             {data'[i].date : i \in {j \in 1..Len(data') :
                                       lastCall'.asset \in DOMAIN data'[j].obj}}
               = {FirstValidParse(formats, lastCall'.file.rows[r].date) :
                     r \in {q \in 1..Len(lastCall'.file.rows) :
                              /\ lastCall'.file.header # <<>>
                              /\ lastCall'.file.rows[q].vals # <<>>}}]_vars

\* text that "%m-%d-%Y", added first, and "%d-%m-%Y", added after it, parse
\* to different dates has been stored under the date of the first
FormatTrialOrderWitness ==
    /\ lastCall.op = "fromCSV"
    /\ lastCall.outcome = "returned"
    /\ lastCall.file.rows[1].date = Text_02_01_2020
    /\ formats = DefaultFormats \o <<"%m-%d-%Y", "%d-%m-%Y">>
    /\ lastCall.asset \in DOMAIN StoreAt(data, Ptime(32, 0))
    /\ \E i \in 1..Len(data) :
          /\ data[i].date = Ptime(1, 0)
          /\ DOMAIN data[i].obj = Assets \ {lastCall.asset}

(***************************************************************************)
(* C12: for every date of the Gregorian calendar in the years checked,     *)
(* getDayOfWeek returns the day of the week of the date, 0 for Sunday to 6 *)
(* for Saturday: the number of days from 0001-01-01, a Monday, to the      *)
(* date, counted by the calendar, modulo 7.  2020-01-01 gives 3 and        *)
(* 2000-01-01 gives 6.                                                     *)
(***************************************************************************)
RECURSIVE DaysBeforeMonth(_, _)
DaysBeforeMonth(year, month) ==
    IF month = 1
    THEN 0
    ELSE DaysBeforeMonth(year, month - 1) + DaysInMonth(year, month - 1)

\* the leap years before the year
LeapYearsBefore(year) ==
    ((year - 1) \div 4) - ((year - 1) \div 100) + ((year - 1) \div 400)

\* the place of the date in the calendar, 0001-01-01 being 1
Ordinal(date) ==
    365 * (date.year - 1) + LeapYearsBefore(date.year)
        + DaysBeforeMonth(date.year, date.month) + date.day

DayOfWeekIsCorrect ==
    lastCall.op = "getDayOfWeek" =>
        /\ lastCall.val \in 0..6
        /\ lastCall.val = Ordinal(lastCall.date) % 7
        /\ lastCall.date = [year |-> 2020, month |-> 1, day |-> 1] => lastCall.val = 3
        /\ lastCall.date = [year |-> 2000, month |-> 1, day |-> 1] => lastCall.val = 6

\* the leap day of the century year 2000, a Tuesday, has been asked for
DayOfWeekWitness ==
    /\ lastCall.op = "getDayOfWeek"
    /\ lastCall.date = [year |-> 2000, month |-> 2, day |-> 29]
    /\ lastCall.val = 2

(***************************************************************************)
(* C13: a Table constructed as a copy is independent of its source (an     *)
(* ingestion or a prune on either of the two changes nothing in the other),*)
(* and a Table constructed by move holds all the source held while the     *)
(* source holds it no more.                                                *)
(***************************************************************************)
CopyIsDeepMoveTransfers ==
    [][/\ lastCall'.op = "copy construct" =>
              /\ other'.formats = formats
              /\ other'.assetsToFeatures = assetsToFeatures
              /\ other'.data = data
              /\ UNCHANGED <<formats, assetsToFeatures, data>>
       /\ (/\ other.built = "copy"
           /\ lastCall'.op \in {"fromCSV", "removeEmptyDates"}) =>
              other' = other
       /\ (/\ other.built = "copy"
           /\ lastCall'.op \in {"other.fromCSV", "other.removeEmptyDates"}) =>
              UNCHANGED <<formats, assetsToFeatures, data>>
       /\ lastCall'.op = "move construct" =>
              /\ other'.formats = formats
              /\ other'.assetsToFeatures = assetsToFeatures
              /\ other'.data = data
              /\ data' = <<>>
              /\ DOMAIN assetsToFeatures' = {}]_vars

(***************************************************************************)
(* C14: fromCSV for a new asset leaves every value the Table holds for the *)
(* assets it has, and their feature sets, as they were, removes no date    *)
(* and keeps one entry per date; when no row of the file is short, every   *)
(* row's date holds the new asset's value of every header feature, in the  *)
(* Row Store that holds the values the other assets had at that date.      *)
(***************************************************************************)
MergeAcrossAssets ==
    [][Ingests =>
          LET file == lastCall'.file
              asset == lastCall'.asset
          IN  /\ \A a \in DOMAIN assetsToFeatures :
                    /\ a \in DOMAIN assetsToFeatures'
                    /\ assetsToFeatures'[a] = assetsToFeatures[a]
              /\ \A i \in 1..Len(data) :
                    /\ data[i].date \in Dates(data')
                    /\ \A a \in DOMAIN data[i].obj :
                          /\ a \in DOMAIN StoreAt(data', data[i].date)
                          /\ StoreAt(data', data[i].date)[a] = data[i].obj[a]
              /\ \A j, k \in 1..Len(data') :
                    data'[j].date = data'[k].date => j = k
              /\ ~HasShortRow(file) =>
                    \A r \in 1..Len(file.rows) :
                        /\ DateOfRow(file, r) \in Dates(data')
                        /\ \A i \in 1..Len(file.header) :
                              Has(StoreAt(data', DateOfRow(file, r)), asset,
                                  file.header[i])]_vars

\* a date that held values of one asset holds, after the other asset's file
\* with a row of the same date is ingested, the values of both
MergeAcrossAssetsWitness ==
    /\ lastCall.op = "fromCSV"
    /\ lastCall.outcome = "returned"
    /\ DOMAIN assetsToFeatures = Assets
    /\ \E r \in 1..Len(lastCall.file.rows) :
          LET date == ParseDate(formats, lastCall.file.rows[r].date)
          IN  /\ date # NotADateTime
              /\ date \in Dates(data)
              /\ \A a \in Assets : Has(StoreAt(data, date), a, "Open")
    /\ Len(data) = 2

(***************************************************************************)
(* C15: in every state reached by fromCSV, removeEmptyDates and            *)
(* addDateFormat, each asset a Row Store of the Table holds is registered  *)
(* in assetsToFeatures and each feature stored for it is one of its        *)
(* registered features; and no step removes a registered asset or changes  *)
(* its feature set.                                                        *)
(***************************************************************************)
IndexCoversData ==
    /\ [](\A i \in 1..Len(data) :
             \A a \in DOMAIN data[i].obj :
                 /\ a \in DOMAIN assetsToFeatures
                 /\ DOMAIN data[i].obj[a] \subseteq assetsToFeatures[a])
    /\ [][\A a \in DOMAIN assetsToFeatures :
             /\ a \in DOMAIN assetsToFeatures'
             /\ assetsToFeatures'[a] = assetsToFeatures[a]]_vars

\* both assets are registered with different feature sets, one Row Store
\* holds values of both, and a prune and a format came after the ingestions
IndexCoversDataWitness ==
    /\ status = "running"
    /\ lastCall.op = "removeEmptyDates"
    /\ Len(formats) > Len(DefaultFormats)
    /\ DOMAIN assetsToFeatures = Assets
    /\ \E a, b \in Assets : assetsToFeatures[a] # assetsToFeatures[b]
    /\ \E i \in 1..Len(data) :
          /\ DOMAIN data[i].obj = Assets
          /\ \E a \in Assets : DOMAIN data[i].obj[a] = Features

====
